---- MODULE Spec2Model ----
(***************************************************************************)
(* Model of the search-query token editor (useQueryBuilderState and its    *)
(* token-mutation functions).  A query string is a sequence of one-        *)
(* character strings, offsets are 0-based and spans are half-open, as in   *)
(* the source.  The parser and the stringifier live outside the modelled   *)
(* file; they are modelled from the specification (Parse, stringifyToken). *)
(***************************************************************************)
EXTENDS Integers, Sequences, FiniteSets, TLC

VARIABLES query, tokens, parsedFrom, target, last, prev, steps

vars == <<query, tokens, parsedFrom, target, last, prev, steps>>

(* ------------------------------ bounds --------------------------------- *)

\* dispatches in one run
MaxSteps == 2

\* longest query a dispatch may produce
MaxQueryLen == 34

(* --------------------------- JavaScript strings ------------------------ *)

Min(a, b) == IF a < b THEN a ELSE b

Max(a, b) == IF a < b THEN b ELSE a

Clamp(n, len) == Max(0, Min(n, len))

\* String.prototype.substring(a, b): both ends clamped to [0, length],
\* swapped when a > b
substring(s, a, b) ==
  LET ca == Clamp(a, Len(s))
      cb == Clamp(b, Len(s))
  IN  SubSeq(s, Min(ca, cb) + 1, Max(ca, cb))

\* String.prototype.substring(a)
substringFrom(s, a) == substring(s, a, Len(s))

\* the white space String.prototype.trim removes (the part of it the
\* modelled alphabet contains)
WhiteSpace == {" ", "\t"}

RECURSIVE trimStart(_)
trimStart(s) ==
  IF s # <<>> /\ Head(s) \in WhiteSpace THEN trimStart(Tail(s)) ELSE s

RECURSIVE trimEnd(_)
trimEnd(s) ==
  IF s # <<>> /\ s[Len(s)] \in WhiteSpace
  THEN trimEnd(SubSeq(s, 1, Len(s) - 1))
  ELSE s

trim(s) == trimEnd(trimStart(s))

\* Array.prototype.join(sep) on an array of strings
RECURSIVE join(_, _)
join(arr, sep) ==
  IF arr = <<>> THEN <<>>
  ELSE IF Len(arr) = 1 THEN arr[1]
  ELSE arr[1] \o sep \o join(Tail(arr), sep)

\* Array.prototype.filter(x => x !== v)
RECURSIVE without(_, _)
without(arr, v) ==
  IF arr = <<>> THEN <<>>
  ELSE IF Head(arr) = v THEN without(Tail(arr), v)
  ELSE <<Head(arr)>> \o without(Tail(arr), v)

\* Array.prototype.includes
includes(arr, v) == \E i \in 1..Len(arr) : arr[i] = v

(* ------------------------ parser and stringifier ----------------------- *)
(* The parser and the stringifier are imported by the modelled file        *)
(* (sentry/components/searchSyntax).  Parse splits a query into SPACES     *)
(* tokens (possibly empty, one before the first term and one after every   *)
(* term) and terms; a term [!]key:[op]value is a FILTER owning a value     *)
(* token, any other term is FREE_TEXT.                                     *)

\* TermOperator: each enum member is its glyph
DEFAULT == <<>>

GREATER_THAN_EQUAL == <<">", "=">>

LESS_THAN_EQUAL == <<"<", "=">>

GREATER_THAN == <<">">>

LESS_THAN == <<"<">>

EQUAL == <<"=">>

NOT_EQUAL == <<"!", "=">>

TermOperator ==
  {DEFAULT, GREATER_THAN_EQUAL, LESS_THAN_EQUAL, GREATER_THAN, LESS_THAN,
   EQUAL, NOT_EQUAL}

Letters ==
  {"a", "b", "d", "e", "g", "i", "k", "l", "m", "n", "o", "r", "s", "t",
   "u", "v"}

Digits == {"1", "2"}

\* 1-based index of the first c in s, 0 when there is none
IndexOf(s, c) ==
  IF \E i \in 1..Len(s) : s[i] = c
  THEN CHOOSE i \in 1..Len(s) : s[i] = c /\ \A j \in 1..(i - 1) : s[j] # c
  ELSE 0

RECURSIVE split(_, _)
split(s, c) ==
  LET i == IndexOf(s, c)
  IN  IF i = 0 THEN <<s>>
      ELSE <<SubSeq(s, 1, i - 1)>> \o split(SubSeq(s, i + 1, Len(s)), c)

startsWith(s, p) == Len(p) <= Len(s) /\ SubSeq(s, 1, Len(p)) = p

\* the value token of a non-filter token
NoValue ==
  [type |-> "none", start |-> 0, end |-> 0, text |-> <<>>, items |-> <<>>]

\* an item of a list value: item.value is null when nothing stands
\* between two separators
listItem(t) == [hasValue |-> t # <<>>, text |-> t]

AllDigits(t) == t # <<>> /\ \A i \in 1..Len(t) : t[i] \in Digits

\* the value token for the text raw found at offsets [s, e)
valueToken(raw, s, e) ==
  IF Len(raw) >= 2 /\ raw[1] = "[" /\ raw[Len(raw)] = "]"
  THEN LET inner == SubSeq(raw, 2, Len(raw) - 1)
           parts == IF inner = <<>> THEN <<>> ELSE split(inner, ",")
           items == [i \in 1..Len(parts) |-> listItem(parts[i])]
       IN  [type  |-> IF parts # <<>> /\ \A i \in 1..Len(parts) : AllDigits(parts[i])
                      THEN "valueNumberList" ELSE "valueTextList",
            start |-> s, end |-> e, text |-> raw, items |-> items]
  ELSE [type  |-> IF AllDigits(raw) THEN "valueNumber" ELSE "valueText",
        start |-> s, end |-> e, text |-> raw, items |-> <<>>]

\* the operator glyph a filter's right-hand side starts with (longest first)
leadingOperator(rest) ==
  IF startsWith(rest, GREATER_THAN_EQUAL) THEN GREATER_THAN_EQUAL
  ELSE IF startsWith(rest, LESS_THAN_EQUAL) THEN LESS_THAN_EQUAL
  ELSE IF startsWith(rest, NOT_EQUAL) THEN NOT_EQUAL
  ELSE IF startsWith(rest, GREATER_THAN) THEN GREATER_THAN
  ELSE IF startsWith(rest, LESS_THAN) THEN LESS_THAN
  ELSE IF startsWith(rest, EQUAL) THEN EQUAL
  ELSE DEFAULT

spacesToken(q, s, e) ==
  [type |-> "spaces", start |-> s, end |-> e, text |-> substring(q, s, e),
   key |-> <<>>, negated |-> FALSE, operator |-> DEFAULT, value |-> NoValue]

\* the token for the term at offsets [s, e) of q
termToken(q, s, e) ==
  LET text  == substring(q, s, e)
      neg   == text[1] = "!"
      body  == IF neg THEN Tail(text) ELSE text
      colon == IndexOf(body, ":")
      key   == SubSeq(body, 1, colon - 1)
      rest  == SubSeq(body, colon + 1, Len(body))
      op    == leadingOperator(rest)
      raw   == SubSeq(rest, Len(op) + 1, Len(rest))
  IN  IF colon > 1 /\ \A i \in 1..Len(key) : key[i] \in Letters
      THEN [type |-> "filter", start |-> s, end |-> e, text |-> text,
            key |-> key, negated |-> neg, operator |-> op,
            value |-> valueToken(raw, e - Len(raw), e)]
      ELSE [type |-> "freeText", start |-> s, end |-> e, text |-> text,
            key |-> <<>>, negated |-> FALSE, operator |-> DEFAULT,
            value |-> NoValue]

\* the offset where the run of spaces (sp = TRUE) or of other characters
\* (sp = FALSE) starting at offset i ends
RECURSIVE runEnd(_, _, _)
runEnd(q, i, sp) ==
  IF i < Len(q) /\ ((q[i + 1] = " ") = sp) THEN runEnd(q, i + 1, sp) ELSE i

RECURSIVE parseFrom(_, _)
parseFrom(q, i) ==
  LET j == runEnd(q, i, TRUE)
      k == runEnd(q, j, FALSE)
  IN  IF j = Len(q) THEN <<spacesToken(q, i, j)>>
      ELSE <<spacesToken(q, i, j), termToken(q, j, k)>> \o parseFrom(q, k)

Parse(q) == parseFrom(q, 0)

\* canonical text of a filter token: negation, key, separator, operator,
\* then the value's text unchanged
stringifyToken(token) ==
  (IF token.negated THEN <<"!">> ELSE <<>>)
    \o token.key \o <<":">> \o token.operator \o token.value.text


(* --------------------------- token mutators ---------------------------- *)

\* a removal that leaves one space where the token was
removeQueryToken_leavesSpace(q, token) ==
  substring(q, 0, token.start) \o <<" ">> \o substringFrom(q, token.end)

\* a removal that also absorbs the white space left at the ends
removeQueryToken_trimmed(q, token) ==
  trim(substring(q, 0, token.start) \o substringFrom(q, token.end))

removeQueryToken(q, token) ==
  substring(q, 0, token.start) \o substringFrom(q, token.end)

\* an assignment that flips the negation when asked for NOT_EQUAL
modifiedFilter_flipsNegation(token, newOperator) ==
  LET isNotEqual == newOperator = NOT_EQUAL
  IN  [token EXCEPT !.operator = IF isNotEqual THEN DEFAULT ELSE newOperator,
                    !.negated = isNotEqual /\ ~token.negated]

\* an assignment that also stores the new text in the token
modifiedFilter_updatesText(token, newOperator) ==
  LET isNotEqual == newOperator = NOT_EQUAL
      t == [token EXCEPT !.operator = IF isNotEqual THEN DEFAULT ELSE newOperator,
                         !.negated = isNotEqual]
  IN  [t EXCEPT !.text = stringifyToken(t)]

\* an assignment that keeps NOT_EQUAL as the operator
modifiedFilter_keepsNotEqual(token, newOperator) ==
  [token EXCEPT !.operator = newOperator, !.negated = newOperator = NOT_EQUAL]

\* the operator and negated fields modifyFilterOperator assigns to its token
modifiedFilter(token, newOperator) ==
  LET isNotEqual == newOperator = NOT_EQUAL
  IN  [token EXCEPT !.operator = IF isNotEqual THEN DEFAULT ELSE newOperator,
                    !.negated = isNotEqual]

\* an operator change that loses the text after the filter
modifyFilterOperator_dropsTail(q, token, newOperator) ==
  substring(q, 0, token.start)
    \o stringifyToken(modifiedFilter(token, newOperator))

modifyFilterOperator(q, token, newOperator) ==
  substring(q, 0, token.start)
    \o stringifyToken(modifiedFilter(token, newOperator))
    \o substringFrom(q, token.end)

\* a replacement that trims the value it writes
replaceQueryToken_trimsValue(q, token, value) ==
  substring(q, 0, token.start) \o trim(value) \o substringFrom(q, token.end)

\* a replacement that loses the text after the token
replaceQueryToken_dropsEnd(q, token, value) ==
  substring(q, 0, token.start) \o value

replaceQueryToken(q, token, value) ==
  LET start == substring(q, 0, token.start)
      end   == substringFrom(q, token.end)
  IN  start \o value \o end

\* a padded replace that forgets the separators
replaceTokenWithPadding_glued(q, token, value) ==
  LET start == substring(q, 0, token.start)
      end   == substringFrom(q, token.end)
  IN  trim(trimEnd(start) \o trim(value) \o trimStart(end))

replaceTokenWithPadding(q, token, value) ==
  LET start == substring(q, 0, token.start)
      end   == substringFrom(q, token.end)
  IN  trim(trimEnd(start) \o <<" ">> \o trim(value) \o <<" ">> \o trimStart(end))

updateFreeText(state, action) ==
  [state EXCEPT !.query = replaceTokenWithPadding(state.query, action.token, action.text)]

\* values.filter(value => value.length > 0)
RECURSIVE nonEmpty(_)
nonEmpty(values) ==
  IF values = <<>> THEN <<>>
  ELSE IF Head(values) = <<>> THEN nonEmpty(Tail(values))
  ELSE <<Head(values)>> \o nonEmpty(Tail(values))

\* an array copy that keeps repeated values
uniq_keepsDuplicates(values) == values

\* Array.from(new Set(values)): first occurrences, in insertion order
RECURSIVE uniq(_)
uniq(values) ==
  IF values = <<>> THEN <<>>
  ELSE LET init == uniq(SubSeq(values, 1, Len(values) - 1))
           v    == values[Len(values)]
       IN  IF includes(init, v) THEN init ELSE Append(init, v)

uniqNonEmptyValues(values) == uniq(nonEmpty(values))

\* a serialization that brackets a single value too
newValue_alwaysBracketed(values) ==
  LET u == uniqNonEmptyValues(values)
  IN  IF Len(u) = 0 THEN <<>>
      ELSE <<"[">> \o join(u, <<",">>) \o <<"]">>

\* the text updateFilterMultipleValues writes for a list of values
newValue(values) ==
  LET u == uniqNonEmptyValues(values)
  IN  IF Len(u) = 0 THEN <<>>
      ELSE IF Len(u) > 1 THEN <<"[">> \o join(u, <<",">>) \o <<"]">>
      ELSE u[1]

\* an update that replaces the whole filter by the new value
updateFilterMultipleValues_atFilterSpan(state, token, values) ==
  [state EXCEPT !.query = replaceQueryToken(state.query, token, newValue(values))]

updateFilterMultipleValues(state, token, values) ==
  [state EXCEPT !.query = replaceQueryToken(state.query, token.value, newValue(values))]

\* item texts read without the guard for an item that has no value: the
\* read raises a TypeError
itemTexts_unguarded(items) ==
  [i \in 1..Len(items) |-> IF items[i].hasValue THEN items[i].text ELSE <<"TypeError">>]

\* tokenValue.items.map(item => item.value?.text ?? '')
itemTexts(items) ==
  [i \in 1..Len(items) |-> IF items[i].hasValue THEN items[i].text ELSE <<>>]

IsListValue(tokenValue) == tokenValue.type \in {"valueTextList", "valueNumberList"}

\* a toggle that puts an added value first
multiSelectValues_prepends(tokenValue, value) ==
  IF IsListValue(tokenValue)
  THEN LET values == itemTexts(tokenValue.items)
       IN  IF includes(values, value) THEN without(values, value)
           ELSE <<value>> \o values
  ELSE IF tokenValue.text = value THEN << <<>> >>
  ELSE <<value, tokenValue.text>>

\* a toggle that appends the value whether or not the list contains it
multiSelectValues_alwaysAdds(tokenValue, value) ==
  IF IsListValue(tokenValue)
  THEN Append(itemTexts(tokenValue.items), value)
  ELSE IF tokenValue.text = value THEN << <<>> >>
  ELSE <<tokenValue.text, value>>

\* the values multiSelectTokenValue hands to updateFilterMultipleValues
multiSelectValues(tokenValue, value) ==
  IF IsListValue(tokenValue)
  THEN LET values == itemTexts(tokenValue.items)
       IN  IF includes(values, value) THEN without(values, value)
           ELSE Append(values, value)
  ELSE IF tokenValue.text = value THEN << <<>> >>
  ELSE <<tokenValue.text, value>>

multiSelectTokenValue(state, action) ==
  updateFilterMultipleValues(state, action.token,
                             multiSelectValues(action.token.value, action.value))

\* a deletion of the first item instead of the last
deleteLastValues_dropsFirst(tokenValue) ==
  IF IsListValue(tokenValue)
  THEN itemTexts(SubSeq(tokenValue.items, 2, Len(tokenValue.items)))
  ELSE << <<>> >>

\* the values deleteLastMultiSelectTokenValue hands to
\* updateFilterMultipleValues
deleteLastValues(tokenValue) ==
  IF IsListValue(tokenValue)
  THEN itemTexts(SubSeq(tokenValue.items, 1, Len(tokenValue.items) - 1))
  ELSE << <<>> >>

deleteLastMultiSelectTokenValue(state, action) ==
  updateFilterMultipleValues(state, action.token, deleteLastValues(action.token.value))

\* a reducer that returns the state it was given when the token's span
\* ends beyond the query
reducer_rejectsOutOfBounds(state, action) ==
  IF action.token.end > Len(state.query) THEN state
  ELSE
  CASE action.type = "DELETE_TOKEN" ->
         [query |-> removeQueryToken(state.query, action.token)]
    [] action.type = "UPDATE_FREE_TEXT" -> updateFreeText(state, action)
    [] action.type = "UPDATE_FILTER_OP" ->
         [query |-> modifyFilterOperator(state.query, action.token, action.op)]
    [] action.type = "UPDATE_TOKEN_VALUE" ->
         [query |-> replaceQueryToken(state.query, action.token, action.value)]
    [] action.type = "TOGGLE_FILTER_VALUE" -> multiSelectTokenValue(state, action)
    [] action.type = "DELETE_LAST_MULTI_SELECT_FILTER_VALUE" ->
         deleteLastMultiSelectTokenValue(state, action)
    [] OTHER -> state

\* a reducer whose default case resets the query
reducer_defaultResets(state, action) ==
  CASE action.type = "DELETE_TOKEN" ->
         [query |-> removeQueryToken(state.query, action.token)]
    [] action.type = "UPDATE_FREE_TEXT" -> updateFreeText(state, action)
    [] action.type = "UPDATE_FILTER_OP" ->
         [query |-> modifyFilterOperator(state.query, action.token, action.op)]
    [] action.type = "UPDATE_TOKEN_VALUE" ->
         [query |-> replaceQueryToken(state.query, action.token, action.value)]
    [] action.type = "TOGGLE_FILTER_VALUE" -> multiSelectTokenValue(state, action)
    [] action.type = "DELETE_LAST_MULTI_SELECT_FILTER_VALUE" ->
         deleteLastMultiSelectTokenValue(state, action)
    [] OTHER -> [query |-> <<>>]

reducer(state, action) ==
  CASE action.type = "DELETE_TOKEN" ->
         [query |-> removeQueryToken(state.query, action.token)]
    [] action.type = "UPDATE_FREE_TEXT" -> updateFreeText(state, action)
    [] action.type = "UPDATE_FILTER_OP" ->
         [query |-> modifyFilterOperator(state.query, action.token, action.op)]
    [] action.type = "UPDATE_TOKEN_VALUE" ->
         [query |-> replaceQueryToken(state.query, action.token, action.value)]
    [] action.type = "TOGGLE_FILTER_VALUE" -> multiSelectTokenValue(state, action)
    [] action.type = "DELETE_LAST_MULTI_SELECT_FILTER_VALUE" ->
         deleteLastMultiSelectTokenValue(state, action)
    [] OTHER -> state


(* ----------------------------- the editor ------------------------------ *)
(* query is state.query.  tokens is the parse result the caller holds: it  *)
(* was parsed from some earlier query and stays as it is until the caller  *)
(* parses again (Reparse); UPDATE_FILTER_OP assigns to the fields of one   *)
(* of its tokens.  parsedFrom, target, last, prev and steps are history:   *)
(* the query the held tokens were parsed from, the last operator each held *)
(* token was asked to take, the last dispatch and the one before it (with  *)
(* the state object the reducer was given, as the call left it), and the   *)
(* number of dispatches.                                                   *)

\* initialQuery: "", "a   b", "is:unresolved  assigned:me",
\* "assigned:[me,team]", "k:", "k:[a,b]", "k:[a,,a]", "k:[a]", "k:[]",
\* "k:[1,2]", "k:1", " !k:a b"
InitialQueries ==
  { <<>>,
    <<"a", " ", " ", " ", "b">>,
    <<"i", "s", ":", "u", "n", "r", "e", "s", "o", "l", "v", "e", "d", " ", " ", "a", "s", "s", "i", "g", "n", "e", "d", ":", "m", "e">>,
    <<"a", "s", "s", "i", "g", "n", "e", "d", ":", "[", "m", "e", ",", "t", "e", "a", "m", "]">>,
    <<"k", ":">>,
    <<"k", ":", "[", "a", ",", "b", "]">>,
    <<"k", ":", "[", "a", ",", ",", "a", "]">>,
    <<"k", ":", "[", "a", "]">>,
    <<"k", ":", "[", "]">>,
    <<"k", ":", "[", "1", ",", "2", "]">>,
    <<"k", ":", "1">>,
    <<" ", "!", "k", ":", "a", " ", "b">> }

\* action.text of UPDATE_FREE_TEXT
FreeTexts == { <<>>, <<" ", " ">>, <<" ", "a", " ">>, <<"\t", "b">> }

\* action.value of UPDATE_TOKEN_VALUE
TokenValues == { <<>>, <<" ", "a", " ">> }

\* action.value of TOGGLE_FILTER_VALUE
ToggleValues == { <<>>, <<"a">>, <<"b">>, <<"1">>, <<"m", "e">>, <<"t", "e", "a", "m">> }

\* an action type the reducer has no case for
UnknownTypes == {"CLEAR"}

NoToken ==
  [type |-> "none", start |-> 0, end |-> 0, text |-> <<>>, key |-> <<>>,
   negated |-> FALSE, operator |-> DEFAULT, value |-> NoValue]

\* a filter's value token, as the token of an action
valueAsToken(v) ==
  [type |-> v.type, start |-> v.start, end |-> v.end, text |-> v.text,
   key |-> <<>>, negated |-> FALSE, operator |-> DEFAULT,
   value |-> [NoValue EXCEPT !.items = v.items]]

Action(type, index, token, text, value, op) ==
  [type |-> type, index |-> index, token |-> token, text |-> text,
   value |-> value, op |-> op]

NoDispatch ==
  [action |-> Action("INIT", 0, NoToken, <<>>, <<>>, DEFAULT), before |-> <<>>,
   fresh |-> FALSE, values |-> <<>>, given |-> [query |-> <<>>]]

\* the state object the reducer was given, as the call leaves it: no case
\* assigns to it, a new object or the object itself is returned
givenState(state, action) == state

\* target of a token no UPDATE_FILTER_OP was dispatched with
NoTarget == <<"none">>

\* the caller holds the parse of the query in state: the held tokens were
\* parsed from it and none of them has been assigned to since
Fresh == parsedFrom = query /\ \A i \in 1..Len(target) : target[i] = NoTarget

Init ==
  /\ query \in InitialQueries
  /\ tokens = Parse(query)
  /\ parsedFrom = query
  /\ target = [i \in 1..Len(tokens) |-> NoTarget]
  /\ last = NoDispatch
  /\ prev = NoDispatch
  /\ steps = 0

\* dispatch(action): the reducer's result becomes the state
Dispatch(action, values) ==
  /\ steps < MaxSteps
  /\ LET next == reducer([query |-> query], action)
     IN  /\ Len(next.query) <= MaxQueryLen
         /\ query' = next.query
  /\ last' = [action |-> action, before |-> query, fresh |-> Fresh,
              values |-> values,
              given |-> givenState([query |-> query], action)]
  /\ prev' = last
  /\ steps' = steps + 1

DeleteToken ==
  \E i \in 1..Len(tokens) :
    /\ Dispatch(Action("DELETE_TOKEN", i, tokens[i], <<>>, <<>>, DEFAULT), <<>>)
    /\ UNCHANGED <<tokens, parsedFrom, target>>

UpdateFreeText ==
  \E i \in 1..Len(tokens), text \in FreeTexts :
    /\ tokens[i].type \in {"freeText", "spaces"}
    /\ Dispatch(Action("UPDATE_FREE_TEXT", i, tokens[i], text, <<>>, DEFAULT), <<>>)
    /\ UNCHANGED <<tokens, parsedFrom, target>>

UpdateFilterOp ==
  \E i \in 1..Len(tokens), op \in TermOperator :
    /\ tokens[i].type = "filter"
    /\ Dispatch(Action("UPDATE_FILTER_OP", i, tokens[i], <<>>, <<>>, op), <<>>)
    /\ tokens' = [tokens EXCEPT ![i] = modifiedFilter(tokens[i], op)]
    /\ target' = [target EXCEPT ![i] = op]
    /\ UNCHANGED parsedFrom

UpdateTokenValue ==
  \E i \in 1..Len(tokens), nested \in BOOLEAN, value \in TokenValues :
    /\ nested => tokens[i].type = "filter"
    /\ Dispatch(Action("UPDATE_TOKEN_VALUE", i,
                       IF nested THEN valueAsToken(tokens[i].value) ELSE tokens[i],
                       <<>>, value, DEFAULT), <<>>)
    /\ UNCHANGED <<tokens, parsedFrom, target>>

ToggleFilterValue ==
  \E i \in 1..Len(tokens), value \in ToggleValues :
    /\ tokens[i].type = "filter"
    /\ Dispatch(Action("TOGGLE_FILTER_VALUE", i, tokens[i], <<>>, value, DEFAULT),
                multiSelectValues(tokens[i].value, value))
    /\ UNCHANGED <<tokens, parsedFrom, target>>

DeleteLastMultiSelectFilterValue ==
  \E i \in 1..Len(tokens) :
    /\ tokens[i].type = "filter"
    /\ Dispatch(Action("DELETE_LAST_MULTI_SELECT_FILTER_VALUE", i, tokens[i],
                       <<>>, <<>>, DEFAULT),
                deleteLastValues(tokens[i].value))
    /\ UNCHANGED <<tokens, parsedFrom, target>>

UnknownAction ==
  \E type \in UnknownTypes :
    /\ Dispatch(Action(type, 0, NoToken, <<>>, <<>>, DEFAULT), <<>>)
    /\ UNCHANGED <<tokens, parsedFrom, target>>

\* the caller parses the query in state again
Reparse ==
  /\ ~Fresh
  /\ tokens' = Parse(query)
  /\ parsedFrom' = query
  /\ target' = [i \in 1..Len(tokens') |-> NoTarget]
  /\ UNCHANGED <<query, last, prev, steps>>

Next ==
  \/ DeleteToken
  \/ UpdateFreeText
  \/ UpdateFilterOp
  \/ UpdateTokenValue
  \/ ToggleFilterValue
  \/ DeleteLastMultiSelectFilterValue
  \/ UnknownAction
  \/ Reparse

Spec == Init /\ [][Next]_vars


(* ------------------------------ properties ----------------------------- *)

\* the text before offset n of q, and the text from offset n on
Before(q, n) == SubSeq(q, 1, n)

After(q, n) == SubSeq(q, n + 1, Len(q))

\* the span of t lies within q
InBounds(t, q) == 0 <= t.start /\ t.start <= t.end /\ t.end <= Len(q)

Dispatched(type) == last.action.type = type

Str_a_b == <<"a", " ", "b">>

Str_a3b == <<"a", " ", " ", " ", "b">>

Str_two_filters ==
  <<"i", "s", ":", "u", "n", "r", "e", "s", "o", "l", "v", "e", "d", " ", " ",
    "a", "s", "s", "i", "g", "n", "e", "d", ":", "m", "e">>

Str_two_filters_joined ==
  <<"i", "s", ":", "u", "n", "r", "e", "s", "o", "l", "v", "e", "d", " ",
    "a", "s", "s", "i", "g", "n", "e", "d", ":", "m", "e">>

\* C1: UPDATE_FREE_TEXT leaves no two consecutive spaces at the joins of
\* the preceding text, the replacement and the following text, whatever the
\* replacement: the result is the non-blank ones of the three (trimmed)
\* parts joined by single spaces; "a   b" with its spaces replaced by "  "
\* gives "a b", and "is:unresolved  assigned:me" with its double space
\* replaced by "" gives "is:unresolved assigned:me".
C1_NoDoubleSpaceAtJoins ==
  (Dispatched("UPDATE_FREE_TEXT") /\ InBounds(last.action.token, last.before)) =>
    LET A == trim(Before(last.before, last.action.token.start))
        V == trim(last.action.text)
        B == trim(After(last.before, last.action.token.end))
    IN  /\ query = join(nonEmpty(<<A, V, B>>), <<" ">>)
        /\ (last.before = Str_a3b /\ last.action.token.start = 1
              /\ last.action.token.end = 4 /\ last.action.text = <<" ", " ">>)
             => query = Str_a_b
        /\ (last.before = Str_two_filters /\ last.action.token.start = 13
              /\ last.action.token.end = 15 /\ last.action.text = <<>>)
             => query = Str_two_filters_joined

\* C2: DELETE_TOKEN on a token with span [s,e) of the query Q gives exactly
\* Q[0:s] + Q[e:]; nothing is added, trimmed or collapsed.
C2_DeleteExact ==
  (Dispatched("DELETE_TOKEN") /\ InBounds(last.action.token, last.before)) =>
    query = Before(last.before, last.action.token.start)
              \o After(last.before, last.action.token.end)

\* C2 witness: the free text "b" of "a   b" was deleted and the three
\* spaces before it stay.
C2_Witness ==
  /\ Dispatched("DELETE_TOKEN")
  /\ last.fresh
  /\ last.before = Str_a3b
  /\ last.action.token.type = "freeText"
  /\ query = <<"a", " ", " ", " ">>

IsBlank(c) == c \in WhiteSpace

\* C3: after UPDATE_FREE_TEXT the query neither starts nor ends with white
\* space, and the replacement text that was written (the replacement without
\* its own surrounding white space), when not empty, has a space between it
\* and any text before it and any text after it.
C3_PaddedReplace ==
  (Dispatched("UPDATE_FREE_TEXT") /\ InBounds(last.action.token, last.before)) =>
    LET A == trim(Before(last.before, last.action.token.start))
        V == trim(last.action.text)
        B == trim(After(last.before, last.action.token.end))
    IN  /\ query # <<>> => (~IsBlank(query[1]) /\ ~IsBlank(query[Len(query)]))
        /\ V # <<>> =>
             query = (IF A = <<>> THEN <<>> ELSE A \o <<" ">>) \o V
                       \o (IF B = <<>> THEN <<>> ELSE <<" ">> \o B)

\* C3 witness: text typed into the empty spaces token at the end of a query
\* that ends with a filter is appended after one space.
C3_Witness ==
  /\ Dispatched("UPDATE_FREE_TEXT")
  /\ last.fresh
  /\ last.action.token.start = last.action.token.end
  /\ last.action.token.end = Len(last.before)
  /\ last.before = <<"k", ":", "[", "a", ",", "b", "]">>
  /\ last.action.text = <<" ", "a", " ">>
  /\ query = <<"k", ":", "[", "a", ",", "b", "]", " ", "a">>


\* the indices of values that hold a non-empty value seen for the first time
FirstOccurrences(values) ==
  {i \in 1..Len(values) :
     values[i] # <<>> /\ \A j \in 1..(i - 1) : values[j] # values[i]}

\* values without its empty strings and its repeated values
Distinct(values) ==
  LET keep == FirstOccurrences(values)
  IN  [n \in 1..Cardinality(keep) |->
         values[CHOOSE i \in keep : Cardinality({j \in keep : j <= i}) = n]]

\* the serialization rule: nothing for no value, the bare value for one,
\* "[v1,v2,...]" for more
Serialized(values) ==
  LET u == Distinct(values)
  IN  IF Len(u) = 0 THEN <<>>
      ELSE IF Len(u) = 1 THEN u[1]
      ELSE <<"[">> \o join(u, <<",">>) \o <<"]">>

WritesValue ==
  Dispatched("TOGGLE_FILTER_VALUE") \/ Dispatched("DELETE_LAST_MULTI_SELECT_FILTER_VALUE")

\* the query with the last action's filter value replaced by text
ValueReplacedBy(text) ==
  Before(last.before, last.action.token.value.start) \o text
    \o After(last.before, last.action.token.value.end)

\* C4: TOGGLE_FILTER_VALUE and DELETE_LAST_MULTI_SELECT_FILTER_VALUE write
\* their list of values without its empty strings and duplicates (first
\* occurrences, in order): "" for none, the bare value for one, "[v1,v2,...]"
\* for more; [] -> "", [a] -> "a", [a,b] -> "[a,b]", [a,"",a,b] -> "[a,b]".
C4_ListSerialization ==
  /\ (WritesValue /\ InBounds(last.action.token.value, last.before)) =>
       query = ValueReplacedBy(Serialized(last.values))
  /\ newValue(<<>>) = <<>>
  /\ newValue(<< <<"a">> >>) = <<"a">>
  /\ newValue(<< <<"a">>, <<"b">> >>) = <<"[", "a", ",", "b", "]">>
  /\ newValue(<< <<"a">>, <<>>, <<"a">>, <<"b">> >>) = <<"[", "a", ",", "b", "]">>

\* C4 witness: "b" was toggled on the filter of "k:[a,,a]", the values
\* [a,"",a,b] were written as "[a,b]".
C4_Witness ==
  /\ Dispatched("TOGGLE_FILTER_VALUE")
  /\ last.fresh
  /\ last.values = << <<"a">>, <<>>, <<"a">>, <<"b">> >>
  /\ query = <<"k", ":", "[", "a", ",", "b", "]">>

\* C5: TOGGLE_FILTER_VALUE with value v: on a list value the new values are
\* the item texts with v appended when v was absent and with v removed when
\* it was present; on a scalar equal to v the new value is empty; on a
\* scalar different from v the new values are [current, v]; the new values
\* are written by the serialization rule.
C5_ToggleValues ==
  (Dispatched("TOGGLE_FILTER_VALUE") /\ InBounds(last.action.token.value, last.before)) =>
    LET tv    == last.action.token.value
        v     == last.action.value
        texts == [i \in 1..Len(tv.items) |->
                    IF tv.items[i].hasValue THEN tv.items[i].text ELSE <<>>]
    IN  IF tv.type \in {"valueTextList", "valueNumberList"}
        THEN IF \E i \in 1..Len(texts) : texts[i] = v
             THEN /\ last.values = SelectSeq(texts, LAMBDA x : x # v)
                  /\ query = ValueReplacedBy(Serialized(SelectSeq(texts, LAMBDA x : x # v)))
             ELSE /\ last.values = Append(texts, v)
                  /\ query = ValueReplacedBy(Serialized(Append(texts, v)))
        ELSE IF tv.text = v
             THEN query = ValueReplacedBy(<<>>)
             ELSE /\ last.values = <<tv.text, v>>
                  /\ query = ValueReplacedBy(Serialized(<<tv.text, v>>))

\* C5 witness: a value was toggled on a filter whose scalar value is another,
\* non-empty one, and the two were written as a list.
C5_Witness ==
  /\ Dispatched("TOGGLE_FILTER_VALUE")
  /\ last.fresh
  /\ last.before = Str_two_filters
  /\ last.action.token.value.type = "valueText"
  /\ last.action.token.value.text = <<"m", "e">>
  /\ last.action.value = <<"t", "e", "a", "m">>
  /\ query = Before(Str_two_filters, 24)
               \o <<"[", "m", "e", ",", "t", "e", "a", "m", "]">>


Str_assigned_me_team ==
  <<"a", "s", "s", "i", "g", "n", "e", "d", ":", "[", "m", "e", ",", "t", "e",
    "a", "m", "]">>

Str_assigned_team ==
  <<"a", "s", "s", "i", "g", "n", "e", "d", ":", "t", "e", "a", "m">>

Str_assigned == <<"a", "s", "s", "i", "g", "n", "e", "d", ":">>

\* the dispatch d toggled value on a filter token of the parse of query q
ToggledOn(d, q, value) ==
  /\ d.action.type = "TOGGLE_FILTER_VALUE"
  /\ d.fresh
  /\ d.before = q
  /\ d.action.value = value

\* C6: from "assigned:[me,team]", TOGGLE_FILTER_VALUE "me" on the filter
\* gives "assigned:team"; after parsing that query, TOGGLE_FILTER_VALUE
\* "team" on the filter gives "assigned:".
C6_ToggleScenario ==
  /\ ToggledOn(last, Str_assigned_me_team, <<"m", "e">>) => query = Str_assigned_team
  /\ (/\ ToggledOn(prev, Str_assigned_me_team, <<"m", "e">>)
      /\ ToggledOn(last, Str_assigned_team, <<"t", "e", "a", "m">>))
       => query = Str_assigned

\* C6 witness: both toggles of the scenario were dispatched.
C6_Witness ==
  /\ ToggledOn(prev, Str_assigned_me_team, <<"m", "e">>)
  /\ ToggledOn(last, Str_assigned_team, <<"t", "e", "a", "m">>)
  /\ query = Str_assigned

\* the values a value token holds: the item texts of a list, the text of a
\* scalar
Content(tokenValue) ==
  IF tokenValue.type \in {"valueTextList", "valueNumberList"}
  THEN [i \in 1..Len(tokenValue.items) |->
          IF tokenValue.items[i].hasValue THEN tokenValue.items[i].text ELSE <<>>]
  ELSE <<tokenValue.text>>

\* the last two dispatches toggled the same value on the same filter, each
\* with a token of the parse of the query it was applied to
ToggledTwice ==
  /\ prev.action.type = "TOGGLE_FILTER_VALUE"
  /\ prev.fresh
  /\ ToggledOn(last, last.before, prev.action.value)
  /\ last.action.index = prev.action.index

\* the values of the toggled filter in the parse of the current query
ContentNow == Content(Parse(query)[last.action.index].value)

\* C7 as claimed: toggling the same value twice (parsing in between) gives
\* back the filter's original values, a one-element list counting as its
\* scalar.
C7_ToggleTwiceRestores ==
  ToggledTwice => Distinct(ContentNow) = Distinct(Content(prev.action.token.value))

\* C7 as amended: toggling the same value twice (parsing in between) gives
\* back the filter's original distinct non-empty values, a one-element list
\* counting as its scalar; they are in the original order when the value was
\* absent at first, and when it was present it has moved to the end.
C7_ToggleTwiceRestoresUpToOrder ==
  ToggledTwice =>
    LET orig == Distinct(Content(prev.action.token.value))
        v    == prev.action.value
    IN  Distinct(ContentNow) =
          IF \E i \in 1..Len(orig) : orig[i] = v
          THEN Append(SelectSeq(orig, LAMBDA x : x # v), v)
          ELSE orig

\* C7 witness: "a" was toggled twice on the filter of "k:[a,b]", which now
\* reads "k:[b,a]".
C7_Witness ==
  /\ ToggledTwice
  /\ prev.before = <<"k", ":", "[", "a", ",", "b", "]">>
  /\ prev.action.value = <<"a">>
  /\ query = <<"k", ":", "[", "b", ",", "a", "]">>

\* C8: DELETE_LAST_MULTI_SELECT_FILTER_VALUE on a list value with items
\* i1..in writes the serialization of i1..i(n-1); on a scalar value of any
\* kind it writes the empty string.
C8_DeleteLastValue ==
  (Dispatched("DELETE_LAST_MULTI_SELECT_FILTER_VALUE")
     /\ InBounds(last.action.token.value, last.before)) =>
    LET tv    == last.action.token.value
        texts == Content(tv)
    IN  IF tv.type \in {"valueTextList", "valueNumberList"}
        THEN query = ValueReplacedBy(Serialized([i \in 1..(Len(texts) - 1) |-> texts[i]]))
        ELSE query = ValueReplacedBy(<<>>)

\* C8 witness: the last value of "assigned:[me,team]" was deleted.
C8_Witness ==
  /\ Dispatched("DELETE_LAST_MULTI_SELECT_FILTER_VALUE")
  /\ last.fresh
  /\ last.before = Str_assigned_me_team
  /\ query = <<"a", "s", "s", "i", "g", "n", "e", "d", ":", "m", "e">>

KnownTypes ==
  {"DELETE_TOKEN", "UPDATE_FREE_TEXT", "UPDATE_FILTER_OP", "UPDATE_TOKEN_VALUE",
   "TOGGLE_FILTER_VALUE", "DELETE_LAST_MULTI_SELECT_FILTER_VALUE"}

\* C9: an action whose type is none of the six known ones leaves the state
\* as it was, in any reachable state.
C9_UnknownActionIsInert ==
  (steps > 0 /\ last.action.type \notin KnownTypes) => query = last.before

\* C9 witness: an unknown action was dispatched after an edit of a query.
C9_Witness ==
  /\ last.action.type \in UnknownTypes
  /\ prev.action.type \in KnownTypes
  /\ prev.before # last.before
  /\ query = last.before
  /\ query # <<>>

\* C10: UPDATE_FILTER_OP with operator op leaves its token with operator
\* DEFAULT and negated TRUE when op is NOT_EQUAL, with operator op and
\* negated FALSE otherwise, and the query with the token's span replaced by
\* the token's canonical text; a token that was the target of
\* UPDATE_FILTER_OP actions never has operator NOT_EQUAL and is negated
\* exactly when the last of them asked for NOT_EQUAL.
C10_FilterOperator ==
  /\ (Dispatched("UPDATE_FILTER_OP") /\ ~Fresh) =>
       LET t  == tokens[last.action.index]
           op == last.action.op
       IN  /\ op = NOT_EQUAL => (t.operator = DEFAULT /\ t.negated)
           /\ op # NOT_EQUAL => (t.operator = op /\ ~t.negated)
           /\ InBounds(t, last.before) =>
                query = Before(last.before, t.start) \o stringifyToken(t)
                          \o After(last.before, t.end)
  /\ \A i \in 1..Len(tokens) :
       target[i] # NoTarget =>
         /\ tokens[i].operator # NOT_EQUAL
         /\ tokens[i].negated = (target[i] = NOT_EQUAL)

\* C10 witness: the same token was asked to take NOT_EQUAL and then
\* GREATER_THAN.
C10_Witness ==
  /\ prev.action.type = "UPDATE_FILTER_OP"
  /\ prev.action.op = NOT_EQUAL
  /\ Dispatched("UPDATE_FILTER_OP")
  /\ last.action.op = GREATER_THAN
  /\ last.action.index = prev.action.index
  /\ parsedFrom = prev.before
  /\ tokens[last.action.index].operator = GREATER_THAN
  /\ ~tokens[last.action.index].negated


\* the last two dispatches asked the same filter for NOT_EQUAL and then for
\* DEFAULT, each with a token of the parse of the query it was applied to
NegatedThenDefault ==
  /\ prev.action.type = "UPDATE_FILTER_OP"
  /\ prev.fresh
  /\ prev.action.op = NOT_EQUAL
  /\ Dispatched("UPDATE_FILTER_OP")
  /\ last.fresh
  /\ last.action.op = DEFAULT
  /\ last.action.index = prev.action.index

\* C11: a filter's operator changed to NOT_EQUAL and, after parsing, back to
\* DEFAULT: the filter of the resulting query has the key and the value text
\* of the original filter, the text before and after the filter is the
\* original one, and the query in between differed from that only by the
\* negation glyph in front of the filter.
C11_OperatorRoundTrip ==
  NegatedThenDefault =>
    LET orig   == prev.action.token
        head   == Before(prev.before, orig.start)
        tail   == After(prev.before, orig.end)
        filter == Parse(query)[last.action.index]
    IN  /\ filter.type = "filter"
        /\ filter.key = orig.key
        /\ filter.value.text = orig.value.text
        /\ Before(query, filter.start) = head
        /\ After(query, filter.end) = tail
        /\ query = head \o orig.key \o <<":">> \o orig.value.text \o tail
        /\ last.before = head \o <<"!">> \o orig.key \o <<":">> \o orig.value.text \o tail

\* C11 witness: the filter of "k:[a,b]" went through NOT_EQUAL, where the
\* query read "!k:[a,b]", and DEFAULT, and reads "k:[a,b]" again.
C11_Witness ==
  /\ NegatedThenDefault
  /\ prev.before = <<"k", ":", "[", "a", ",", "b", "]">>
  /\ last.before = <<"!", "k", ":", "[", "a", ",", "b", "]">>
  /\ query = <<"k", ":", "[", "a", ",", "b", "]">>


endsWith(s, p) == Len(p) <= Len(s) /\ SubSeq(s, Len(s) - Len(p) + 1, Len(s)) = p

\* q starts with head and, after it, ends with tail
Frames(q, head, tail) ==
  /\ startsWith(q, head)
  /\ endsWith(q, tail)
  /\ Len(head) + Len(tail) <= Len(q)

\* one of the six actions was dispatched with a token of the parse of the
\* query it was applied to
FreshEdit == last.action.type \in KnownTypes /\ last.fresh

\* C12 as claimed: each of the six actions, given a token with span [s,e) of
\* the parse of the query Q, keeps Q[0:s] as the start and Q[e:] as the end
\* of the new query; UPDATE_FREE_TEXT may change them only in the white space
\* next to the replacement.
C12_FrameAsClaimed ==
  FreshEdit =>
    LET head == Before(last.before, last.action.token.start)
        tail == After(last.before, last.action.token.end)
    IN  IF Dispatched("UPDATE_FREE_TEXT")
        THEN Frames(query, trimEnd(head), trimStart(tail))
        ELSE Frames(query, head, tail)

\* C12 as amended: each of the six actions, given a token with span [s,e) of
\* the parse of the query Q, keeps Q[0:s] as the start and Q[e:] as the end
\* of the new query; UPDATE_FREE_TEXT may change them only in white space,
\* next to the replacement and at the two ends of the query, whose leading
\* and trailing white space it removes.
C12_Frame ==
  FreshEdit =>
    LET head == Before(last.before, last.action.token.start)
        tail == After(last.before, last.action.token.end)
    IN  IF Dispatched("UPDATE_FREE_TEXT")
        THEN Frames(query, trim(head), trim(tail))
        ELSE Frames(query, head, tail)

\* C12 witness: the free text "b" of " !k:a b" was replaced, the text before
\* it lost the space the query started with.
C12_Witness ==
  /\ FreshEdit
  /\ Dispatched("UPDATE_FREE_TEXT")
  /\ last.before = <<" ", "!", "k", ":", "a", " ", "b">>
  /\ last.action.token.start = 6
  /\ last.action.text = <<" ", "a", " ">>
  /\ query = <<"!", "k", ":", "a", " ", "a">>


\* the characters a query is written with
Chars == Letters \cup Digits \cup WhiteSpace \cup {":", ",", "[", "]", "!", "<", ">", "="}

IsString(q) == \A i \in 1..Len(q) : q[i] \in Chars

\* C13: the six operations are total: for every query and every token with
\* 0 <= start <= end <= length of the query (an empty span, an empty query,
\* a list without items and a list item without a value included) the
\* reducer returns a state whose query is a string, and raises nothing.
C13_Total ==
  (last.action.type \in KnownTypes
     /\ InBounds(last.action.token, last.before)
     /\ InBounds(last.action.token.value, last.before)) =>
    IsString(query)

\* C13 witness: the last value was deleted from the list of "k:[a,,a]",
\* whose second item has no value.
C13_Witness ==
  /\ Dispatched("DELETE_LAST_MULTI_SELECT_FILTER_VALUE")
  /\ last.before = <<"k", ":", "[", "a", ",", ",", "a", "]">>
  /\ \E i \in 1..Len(last.action.token.value.items) :
       ~last.action.token.value.items[i].hasValue
  /\ query = <<"k", ":", "a">>


\* C14: UPDATE_TOKEN_VALUE with a token of span [s,e) and the value v gives
\* exactly Q[0:s] + v + Q[e:]: v is written as it is, untrimmed, and no space
\* is added or removed next to it.
C14_ReplaceVerbatim ==
  (Dispatched("UPDATE_TOKEN_VALUE") /\ InBounds(last.action.token, last.before)) =>
    query = Before(last.before, last.action.token.start) \o last.action.value
              \o After(last.before, last.action.token.end)

\* C14 witness: the value of the filter "k:1" was replaced by " a ", which
\* stands in the query with both its spaces.
C14_Witness ==
  /\ Dispatched("UPDATE_TOKEN_VALUE")
  /\ last.fresh
  /\ last.before = <<"k", ":", "1">>
  /\ last.action.token.start = 2
  /\ last.action.value = <<" ", "a", " ">>
  /\ query = <<"k", ":", " ", "a", " ">>


\* C15: a dispatch leaves the state object the reducer was given as it was;
\* no action but UPDATE_FILTER_OP changes a token, and UPDATE_FILTER_OP
\* changes only the operator and negated fields of its own token (location,
\* text, key and value stay).
C15_NoOtherSideEffect ==
  [][steps' = steps + 1 =>
       /\ last'.given = [query |-> query]
       /\ IF last'.action.type = "UPDATE_FILTER_OP"
          THEN LET i == last'.action.index
               IN  /\ Len(tokens') = Len(tokens)
                   /\ \A j \in 1..Len(tokens) : j # i => tokens'[j] = tokens[j]
                   /\ tokens'[i] = [tokens[i] EXCEPT !.operator = tokens'[i].operator,
                                                     !.negated = tokens'[i].negated]
          ELSE tokens' = tokens]_vars

\* C15 witness: UPDATE_FILTER_OP was dispatched and its token now differs
\* from what it was, in operator or negation.
C15_Witness ==
  /\ Dispatched("UPDATE_FILTER_OP")
  /\ ~Fresh
  /\ parsedFrom = last.before
  /\ tokens[last.action.index] # last.action.token
  /\ tokens[last.action.index].text = last.action.token.text
  /\ last.given.query = last.before
  /\ query # last.before


ValueTypes == {"valueText", "valueNumber", "valueTextList", "valueNumberList"}

\* the last two dispatches carried the same intent: the same type, payload
\* and place of the token, each with a token of the parse of the query it was
\* applied to
SameIntentTwice ==
  /\ last.action.type \in KnownTypes
  /\ prev.action.type = last.action.type
  /\ prev.fresh
  /\ last.fresh
  /\ prev.action.index = last.action.index
  /\ (prev.action.token.type \in ValueTypes) = (last.action.token.type \in ValueTypes)
  /\ prev.action.text = last.action.text
  /\ prev.action.value = last.action.value
  /\ prev.action.op = last.action.op

FilterActions ==
  {"UPDATE_FILTER_OP", "TOGGLE_FILTER_VALUE", "DELETE_LAST_MULTI_SELECT_FILTER_VALUE"}

StaleEdit == last.action.type \in KnownTypes /\ ~last.fresh

\* the query cut at the offsets from and to, each clamped to its length,
\* with text in between
CutAndFill(q, from, to, text) ==
  Before(q, Min(from, Len(q))) \o text \o After(q, Min(to, Len(q)))

\* C17: the reducer does not detect a stale token: given a token that was
\* parsed from an earlier query (its offsets may lie beyond the current
\* length), it raises nothing and returns the query built from the current
\* string cut at the token's offsets, clamped to the string's length.
C17_StaleTokenUndetected ==
  StaleEdit =>
    LET t  == last.action.token
        q  == last.before
        op == last.action.op
    IN  /\ IsString(query)
        /\ Dispatched("DELETE_TOKEN") => query = CutAndFill(q, t.start, t.end, <<>>)
        /\ Dispatched("UPDATE_TOKEN_VALUE") =>
             query = CutAndFill(q, t.start, t.end, last.action.value)
        /\ Dispatched("UPDATE_FILTER_OP") =>
             query = CutAndFill(q, t.start, t.end,
                                (IF op = NOT_EQUAL THEN <<"!">> ELSE <<>>) \o t.key \o <<":">>
                                  \o (IF op = NOT_EQUAL THEN <<>> ELSE op) \o t.value.text)
        /\ Dispatched("UPDATE_FREE_TEXT") =>
             query = trim(trimEnd(Before(q, Min(t.start, Len(q)))) \o <<" ">>
                            \o trim(last.action.text) \o <<" ">>
                            \o trimStart(After(q, Min(t.end, Len(q)))))
        /\ WritesValue =>
             query = CutAndFill(q, t.value.start, t.value.end, Serialized(last.values))

\* C17 witness: the first filter of "is:unresolved  assigned:me" was deleted
\* and then, without parsing, deleted again with its old span [0,13): this
\* removed "  assigned:me", the text of the other tokens.
C17_Witness ==
  /\ StaleEdit
  /\ Dispatched("DELETE_TOKEN")
  /\ prev.before = Str_two_filters
  /\ prev.action.type = "DELETE_TOKEN"
  /\ last.action.token = prev.action.token
  /\ last.action.token.type = "filter"
  /\ last.before = After(Str_two_filters, 13)
  /\ query = <<>>


\* C18: TOGGLE_FILTER_VALUE and DELETE_LAST_MULTI_SELECT_FILTER_VALUE replace
\* the span [vs,ve) of the filter's value token, not the filter's span: the
\* text up to vs, with the filter's negation, key and operator, and the text
\* from ve on stay, the written value stands between them, and an emptied
\* value leaves the key and the operator ("key:").
C18_ValueSpanOnly ==
  (WritesValue /\ last.fresh) =>
    LET t       == last.action.token
        v       == t.value
        written == Len(query) - (Len(last.before) - (v.end - v.start))
        head    == (IF t.negated THEN <<"!">> ELSE <<>>) \o t.key \o <<":">> \o t.operator
    IN  /\ written >= 0
        /\ Before(query, v.start) = Before(last.before, v.start)
        /\ After(query, v.start + written) = After(last.before, v.end)
        /\ SubSeq(query, t.start + 1, v.start) = head
        /\ SubSeq(query, v.start + 1, v.start + written) = newValue(last.values)
        /\ written = 0 =>
             query = Before(last.before, t.start) \o head \o After(last.before, t.end)

\* C18 witness: "a" was toggled on the filter of " !k:a b", whose value is
\* now empty: " !k: b".
C18_Witness ==
  /\ Dispatched("TOGGLE_FILTER_VALUE")
  /\ last.fresh
  /\ last.before = <<" ", "!", "k", ":", "a", " ", "b">>
  /\ last.action.value = <<"a">>
  /\ query = <<" ", "!", "k", ":", " ", "b">>

\* C20: DELETE_TOKEN with a token gives the query that UPDATE_TOKEN_VALUE
\* with the same token and the empty string gives, for every query and every
\* span.
C20_DeleteIsEmptyReplace ==
  /\ Dispatched("DELETE_TOKEN") =>
       query = replaceQueryToken(last.before, last.action.token, <<>>)
  /\ (Dispatched("UPDATE_TOKEN_VALUE") /\ last.action.value = <<>>) =>
       query = removeQueryToken(last.before, last.action.token)

\* C20 witness: the empty string was written over a token with a non-empty
\* span that was parsed from an earlier query.
C20_Witness ==
  /\ Dispatched("UPDATE_TOKEN_VALUE")
  /\ last.action.value = <<>>
  /\ ~last.fresh
  /\ last.action.token.start < last.action.token.end
  /\ last.action.token.end <= Len(last.before)
  /\ query # last.before


\* the action object of the last dispatch as the reducer left it: the token
\* of UPDATE_FILTER_OP with the operator and negation it was assigned
ActionAfterCall ==
  [last.action EXCEPT
     !.token = IF last.action.type = "UPDATE_FILTER_OP"
               THEN modifiedFilter(@, last.action.op) ELSE @]

\* C19: the reducer applied once more to the same state and the same action
\* object returns an equal state, for every action type; for
\* UPDATE_FILTER_OP the fields the first call assigned to the token do not
\* change what the second call returns.
C19_SameResultWhenInvokedAgain ==
  steps > 0 =>
    /\ reducer([query |-> last.before], ActionAfterCall) = [query |-> query]
    /\ Dispatched("UPDATE_FILTER_OP") =>
         modifiedFilter(ActionAfterCall.token, last.action.op) = ActionAfterCall.token

\* C19 witness: NOT_EQUAL was asked of the filter of "k:[a,b]", which the
\* call left negated, unlike the token it was given.
C19_Witness ==
  /\ Dispatched("UPDATE_FILTER_OP")
  /\ last.action.op = NOT_EQUAL
  /\ last.before = <<"k", ":", "[", "a", ",", "b", "]">>
  /\ ~last.action.token.negated
  /\ ActionAfterCall.token.negated
  /\ query = <<"!", "k", ":", "[", "a", ",", "b", "]">>


====
